---- MODULE Spec2Model ----
(***************************************************************************)
(* State-machine model of the PTS session object of libpts (pts.c):       *)
(* the Diffie-Hellman nonce exchange and the secret assessment value, the *)
(* table of PCR registers with its selection bitmap, and the construction *)
(* of the TPM_PCR_COMPOSITE and TPM_QUOTE_INFO / TPM_QUOTE_INFO2           *)
(* structures.                                                            *)
(*                                                                         *)
(* A chunk_t is a sequence of atoms.  An atom is either one concrete byte *)
(* or an opaque run of n bytes (random bytes, a DH shared secret, a       *)
(* register value, a TPM blob, or the first n bytes of a digest over a    *)
(* recorded input).  The empty sequence is chunk_empty (ptr = NULL).      *)
(* Every atom names the owner of the buffer it lies in: the session, for  *)
(* memory the session allocated, or the caller, for an argument buffer.   *)
(***************************************************************************)
EXTENDS Integers, Sequences, FiniteSets, TLC

VARIABLES
    is_imc,             \* TRUE if IMC-PTS, FALSE if IMV-PTS
    has_tpm,            \* do we have an activated TPM
    proto_caps,         \* PTS protocol capabilities, a set of flags
    algorithm,          \* PTS measurement algorithm
    aik,                \* AIK certificate (or NULL)
    dh_hash_algorithm,  \* DH hash algorithm
    dh,                 \* diffie_hellman_t object (or NULL)
    initiator_nonce,    \* chunk
    responder_nonce,    \* chunk
    secret,             \* secret assessment value, chunk
    tpm_version_info,   \* chunk
    pcrs,               \* [0..PCR_MAX_NUM-1 -> chunk], <<>> is a NULL slot
    pcr_len,            \* length of PCR registers
    pcr_count,          \* number of extended PCR registers
    pcr_max,            \* highest extended PCR register
    pcr_select,         \* [0..PCR_MAX_NUM/8-1 -> 0..255]
    selected,           \* history: indexes given to select_pcr since the last clear_pcrs
    other,              \* the pts_t object of the peer, a record of its fields
    last                \* history: the last call, its arguments, result and outputs

session == <<is_imc, has_tpm, proto_caps, algorithm, aik, other>>
registry == <<pcrs, pcr_count, pcr_max, pcr_select>>
negotiator == <<dh, initiator_nonce, responder_nonce, secret>>
vars == <<is_imc, has_tpm, proto_caps, algorithm, aik, dh_hash_algorithm, dh, initiator_nonce, responder_nonce,
          secret, tpm_version_info, pcrs, pcr_len, pcr_count, pcr_max, pcr_select,
          selected, other, last>>

-----------------------------------------------------------------------------
(* Program constants *)

PCR_MAX_NUM == 24
PCR_LEN == 20
HASH_SIZE_SHA1 == 20
SECRET_MAX_LEN == 20
TPM_TAG_QUOTE_INFO2 == 54
TPM_LOC_ZERO == 1

(* Bounds of the model *)

\* number of valid register indexes the callers use
NumIdx == 3
\* number of distinct outcomes of one draw from the random source
MaxRand == 1
\* number of distinct nonces the peer may send
MaxPeer == 2

-----------------------------------------------------------------------------
(* Chunks *)

Min(a, b) == IF a < b THEN a ELSE b
Max(a, b) == IF a > b THEN a ELSE b

chunk_empty == <<>>

Byte(b) ==
    [k |-> "byte", v |-> b % 256, n |-> 1, alg |-> "", src |-> <<>>, own |-> "session"]
Blob(kind, id, len) ==
    [k |-> kind, v |-> id, n |-> len, alg |-> "", src |-> <<>>, own |-> "session"]

\* a buffer of the caller, passed as a chunk_t argument
CallerBlob(kind, id, len) == [Blob(kind, id, len) EXCEPT !.own = "caller"]

\* chunk_clone: the same bytes in memory newly allocated by the session
chunk_clone(c) == [i \in 1..Len(c) |-> [c[i] EXCEPT !.own = "session"]]

chunk_from_chars(bs) == [i \in 1..Len(bs) |-> Byte(bs[i])]

\* "QUOT" and "QUT2" as ASCII
MagicQUOT == chunk_from_chars(<<81, 85, 79, 84>>)
MagicQUT2 == chunk_from_chars(<<81, 85, 84, 50>>)

RECURSIVE ChunkLen(_)
ChunkLen(c) == IF c = <<>> THEN 0 ELSE c[1].n + ChunkLen(Tail(c))

\* chunk_create(ptr, len) on a stored buffer: the first len bytes at ptr
chunk_create(c, len) ==
    IF c = <<>> \/ len = 0 THEN <<>>
    ELSE IF Len(c) = 1 THEN <<[c[1] EXCEPT !.n = len]>>
    ELSE c

-----------------------------------------------------------------------------
(* Hashers *)

HASH_UNKNOWN == "HASH_UNKNOWN"
HASH_SHA1 == "HASH_SHA1"
HASH_SHA256 == "HASH_SHA256"
HASH_SHA384 == "HASH_SHA384"

PTS_MEAS_ALGO_NONE == "PTS_MEAS_ALGO_NONE"
PTS_MEAS_ALGO_SHA1 == "PTS_MEAS_ALGO_SHA1"
PTS_MEAS_ALGO_SHA256 == "PTS_MEAS_ALGO_SHA256"
PTS_MEAS_ALGO_SHA384 == "PTS_MEAS_ALGO_SHA384"

pts_meas_algo_to_hash(algo) ==
    CASE algo = PTS_MEAS_ALGO_SHA1 -> HASH_SHA1
      [] algo = PTS_MEAS_ALGO_SHA256 -> HASH_SHA256
      [] algo = PTS_MEAS_ALGO_SHA384 -> HASH_SHA384
      [] OTHER -> HASH_UNKNOWN

HashSize(hash_alg) ==
    CASE hash_alg = HASH_SHA1 -> HASH_SIZE_SHA1
      [] hash_alg = HASH_SHA256 -> 32
      [] hash_alg = HASH_SHA384 -> 48
      [] OTHER -> 0

\* hasher->allocate_hash over the concatenation of the chunks fed to it
allocate_hash(hash_alg, data) ==
    <<[k |-> "hash", v |-> 0, n |-> HashSize(hash_alg), alg |-> hash_alg, src |-> data,
       own |-> "session"]>>

-----------------------------------------------------------------------------
(* bio_writer *)

write_uint8(v) == <<Byte(v)>>
write_uint16(v) == <<Byte((v \div 256) % 256), Byte(v % 256)>>
write_uint32(v) ==
    <<Byte((v \div 16777216) % 256), Byte((v \div 65536) % 256),
      Byte((v \div 256) % 256), Byte(v % 256)>>

-----------------------------------------------------------------------------
(* Bit operations on u_int8_t *)

RECURSIVE Pow2(_)
Pow2(b) == IF b = 0 THEN 1 ELSE 2 * Pow2(b - 1)

BitAnd1(byte, f) == (byte \div f) % 2 = 1
BitOr1(byte, f) == IF BitAnd1(byte, f) THEN byte ELSE (byte + f) % 256

-----------------------------------------------------------------------------
(* Diffie-Hellman object *)

NoDH == [present |-> FALSE, key |-> 0, peer |-> 0]

\* lib->crypto->create_dh: NULL for a group without implementation
create_dh(supported, key) ==
    IF supported THEN [present |-> TRUE, key |-> key, peer |-> 0] ELSE NoDH

\* dh->set_other_public_value: a value that fails verification is not taken
set_other_public_value(d, value) ==
    IF value > 0 THEN [d EXCEPT !.peer = value] ELSE d

\* dh->get_shared_secret succeeds once a peer value has been taken
shared_secret_ok(d) == d.peer > 0
\* the same secret for the key a with the public value of b and the key b with the
\* public value of a; the public value of a key is written as the key
shared_secret_of(d) == <<Blob("dh", 10 * Min(d.key, d.peer) + Max(d.key, d.peer), 128)>>

-----------------------------------------------------------------------------
(* Protocol capabilities and the AIK certificate *)

PTS_PROTO_CAPS_V == "V"
PTS_PROTO_CAPS_T == "T"
PTS_PROTO_CAPS_D == "D"

\* mutant: the IMV-PTS gets no hardware flags at creation
pts_create_proto_caps_probed(imc, tpm) ==
    {PTS_PROTO_CAPS_V} \cup (IF tpm THEN {PTS_PROTO_CAPS_T, PTS_PROTO_CAPS_D} ELSE {})

\* this->proto_caps when pts_create returns
pts_create_proto_caps(imc, tpm) ==
    {PTS_PROTO_CAPS_V}
    \cup (IF imc
          THEN (IF tpm THEN {PTS_PROTO_CAPS_T, PTS_PROTO_CAPS_D} ELSE {})
          ELSE {PTS_PROTO_CAPS_T, PTS_PROTO_CAPS_D})

\* this->aik == NULL
NoAik == [present |-> FALSE, public_key |-> FALSE]

\* a certificate_t; public_key tells whether get_public_key yields a key
Certificate(public_key) == [present |-> TRUE, public_key |-> public_key]

\* load_aik leaves this->aik NULL when neither file is configured or loads
LoadedAiks == {NoAik, Certificate(TRUE)}

-----------------------------------------------------------------------------
\* pts_error_code_t, 0 for no error
PTS_ERROR_NONE == "0"
TCG_PTS_FILE_NOT_FOUND == "TCG_PTS_FILE_NOT_FOUND"
TCG_PTS_INVALID_PATH == "TCG_PTS_INVALID_PATH"

\* the pts_file_meas_t* returned by do_measurements: NULL, or the list of entries
NoMeasurements == [null |-> TRUE, entries |-> <<>>]

\* after_built: the call was made right after a successful get_quote_info
\* fault: the call dereferenced a NULL pointer or used an uninitialized one
\* value: the DH public value handed out
\* error_code: *error_code of is_path_valid
\* measurements: the return value of do_measurements
\* tss: the TSS calls and buffer releases the call made, in order
\* replaced: add_pcr found the slot populated with a value other than pcr_before
\* cleared: the call ran clear_pcrs
\* freed: the slots clear_pcrs found populated and freed
NoCall ==
    [op |-> "pts_create", ret |-> TRUE, use_quote2 |-> FALSE,
     use_ver_info |-> FALSE, pcr_comp |-> <<>>, out_pcr_comp |-> <<>>,
     out_quote_info |-> <<>>, shared_secret |-> <<>>,
     after_built |-> FALSE, fault |-> FALSE, value |-> 0,
     error_code |-> PTS_ERROR_NONE, measurements |-> NoMeasurements, tss |-> <<>>,
     replaced |-> FALSE, cleared |-> FALSE, freed |-> {}]

Call(op, ret) == [NoCall EXCEPT !.op = op, !.ret = ret]

\* has_tpm() stores the TPM_CAP_VERSION_INFO blob it reads
VersionInfoBlob == <<Blob("tpm_version_info", 1, 15)>>

\* one entry of last.tss: a TSS call and whether it returned TSS_SUCCESS, or a
\* release (Tspi_Context_FreeMemory, Tspi_Context_CloseObject, Tspi_Context_Close,
\* chunk_alloc, chunk_clear), which returns nothing that is tested
TssCall(call, ok) == [call |-> call, ok |-> ok]

\* the calls made up to and including the one that fails; fail_at = "none" for none
tss_until(steps, fail_at) ==
    LET n == IF fail_at = "none" THEN Len(steps)
             ELSE CHOOSE k \in 1..Len(steps) : steps[k] = fail_at
    IN [k \in 1..n |-> TssCall(steps[k], steps[k] # fail_at)]

\* the label err of read_pcr and has_tpm
tss_err == <<TssCall("Tspi_Context_FreeMemory", TRUE), TssCall("Tspi_Context_Close", TRUE)>>

HasTpmSteps ==
    <<"Tspi_Context_Create", "Tspi_Context_Connect", "Tspi_Context_GetTpmObject",
      "Tspi_TPM_GetCapability">>

\* the TSS calls of has_tpm(), which pts_create runs for a measurer
has_tpm_tss(fail_at) ==
    tss_until(HasTpmSteps, fail_at)
        \o (IF fail_at = "Tspi_Context_Create" THEN <<>> ELSE tss_err)

\* the object pts_create(imc) returns on a host without TPM, but for its registry,
\* which is empty
pts_create_without_tpm(imc) ==
    [is_imc |-> imc, has_tpm |-> FALSE,
     proto_caps |-> pts_create_proto_caps(imc, FALSE),
     algorithm |-> PTS_MEAS_ALGO_SHA256, aik |-> NoAik,
     dh_hash_algorithm |-> PTS_MEAS_ALGO_SHA256, dh |-> NoDH,
     initiator_nonce |-> chunk_empty, responder_nonce |-> chunk_empty,
     secret |-> chunk_empty, tpm_version_info |-> chunk_empty, pcr_len |-> 0]

\* two objects exist, one of each role: the one the calls are made on, and the peer
Init ==
    /\ is_imc \in BOOLEAN
    /\ other = pts_create_without_tpm(~is_imc)
    /\ has_tpm \in (IF is_imc THEN BOOLEAN ELSE {FALSE})
    /\ proto_caps = pts_create_proto_caps(is_imc, has_tpm)
    /\ algorithm = PTS_MEAS_ALGO_SHA256
    /\ aik \in (IF has_tpm THEN LoadedAiks ELSE {NoAik})
    /\ dh_hash_algorithm = PTS_MEAS_ALGO_SHA256
    /\ dh = NoDH
    /\ initiator_nonce = chunk_empty
    /\ responder_nonce = chunk_empty
    /\ secret = chunk_empty
    /\ tpm_version_info = (IF has_tpm THEN VersionInfoBlob ELSE chunk_empty)
    /\ pcrs = [i \in 0..(PCR_MAX_NUM - 1) |-> <<>>]
    /\ pcr_len = (IF has_tpm THEN PCR_LEN ELSE 0)
    /\ pcr_count = 0
    /\ pcr_max = 0
    /\ pcr_select = [i \in 0..(PCR_MAX_NUM \div 8 - 1) |-> 0]
    /\ selected = {}
    /\ \E fail_at \in {HasTpmSteps[k] : k \in 1..Len(HasTpmSteps)} \cup {"none"} :
          /\ has_tpm <=> is_imc /\ fail_at = "none"
          /\ ~is_imc => fail_at = HasTpmSteps[1]
          /\ last = [NoCall EXCEPT !.tss = IF is_imc THEN has_tpm_tss(fail_at) ELSE <<>>]

-----------------------------------------------------------------------------
(* Session: algorithms and TPM version info *)

set_proto_caps(flags) ==
    /\ proto_caps' = flags
    /\ last' = Call("set_proto_caps", TRUE)
    /\ UNCHANGED <<is_imc, has_tpm, algorithm, aik, dh_hash_algorithm, negotiator,
                   tpm_version_info, registry, pcr_len, selected, other>>

\* mutant: the setter stores whatever it is given
set_algorithm_unchecked(new, old) == new

\* if (hash_alg != HASH_UNKNOWN) { selector = algorithm; }
set_algorithm(new, old) ==
    IF pts_meas_algo_to_hash(new) # HASH_UNKNOWN THEN new ELSE old

set_meas_algorithm(new) ==
    /\ algorithm' = set_algorithm(new, algorithm)
    /\ last' = Call("set_meas_algorithm", TRUE)
    /\ UNCHANGED <<is_imc, has_tpm, proto_caps, aik, dh_hash_algorithm, negotiator,
                   tpm_version_info, registry, pcr_len, selected, other>>

set_dh_hash_algorithm(new) ==
    /\ dh_hash_algorithm' = set_algorithm(new, dh_hash_algorithm)
    /\ last' = Call("set_dh_hash_algorithm", TRUE)
    /\ UNCHANGED <<session, negotiator, tpm_version_info, registry, pcr_len,
                   selected>>

set_tpm_version_info(info) ==
    /\ tpm_version_info' = chunk_clone(info)
    /\ last' = Call("set_tpm_version_info", TRUE)
    /\ UNCHANGED <<session, dh_hash_algorithm, negotiator, registry, pcr_len,
                   selected>>

set_aik(cert) ==
    /\ aik' = cert
    /\ last' = Call("set_aik", TRUE)
    /\ UNCHANGED <<is_imc, has_tpm, proto_caps, algorithm, dh_hash_algorithm,
                   negotiator, tpm_version_info, registry, pcr_len, selected, other>>

\* verified is the result of aik_pub_key->verify with SIGN_RSA_EMSA_PKCS1_SHA1.
\* this->aik->get_public_key is called without a test of this->aik: on a NULL
\* aik the call is a NULL pointer dereference and the process faults.
verify_quote_signature(verified) ==
    /\ IF ~aik.present
       THEN last' = [Call("verify_quote_signature", FALSE) EXCEPT !.fault = TRUE]
       ELSE IF ~aik.public_key
       THEN last' = Call("verify_quote_signature", FALSE)
       ELSE last' = Call("verify_quote_signature", verified)
    /\ UNCHANGED <<session, dh_hash_algorithm, negotiator, tpm_version_info,
                   registry, pcr_len, selected>>

-----------------------------------------------------------------------------
(* File measurements *)

\* mutant: every failure of stat is reported as an unclassified error
path_error_unclassified(errno) == [ret |-> errno = "0", error_code |-> PTS_ERROR_NONE]

\* the return value and *error_code of is_path_valid for the errno stat leaves;
\* errno "0" stands for a stat that succeeds
path_error(errno) ==
    IF errno = "0" THEN [ret |-> TRUE, error_code |-> PTS_ERROR_NONE]
    ELSE IF errno = "ENOENT" \/ errno = "ENOTDIR"
    THEN [ret |-> TRUE, error_code |-> TCG_PTS_FILE_NOT_FOUND]
    ELSE IF errno = "EFAULT"
    THEN [ret |-> TRUE, error_code |-> TCG_PTS_INVALID_PATH]
    ELSE [ret |-> FALSE, error_code |-> PTS_ERROR_NONE]

is_path_valid(errno) ==
    /\ last' = [Call("is_path_valid", path_error(errno).ret)
                   EXCEPT !.error_code = path_error(errno).error_code]
    /\ UNCHANGED <<session, dh_hash_algorithm, negotiator, tpm_version_info,
                   registry, pcr_len, selected>>

\* A file is [name, reg, status, id]: name is a sequence of characters, reg is
\* S_ISREG(st.st_mode), status is "ok", "unopenable" (fopen fails) or
\* "read_error" (fopen succeeds, fread fails before the end of the file).

\* hash_file returns FALSE only when fopen fails
hash_file_ok(file) == file.status # "unopenable"

\* the bytes hash_file feeds to the hasher: fread returning 0 ends the loop,
\* at the end of the file and on a read error alike
bytes_read(file) ==
    IF file.status = "ok" THEN <<Blob("file", file.id, 8192)>>
    ELSE <<Blob("file_part", file.id, 4096)>>

\* the digest hash_file leaves in hash
hash_file(hash_alg, file) == allocate_hash(hash_alg, bytes_read(file))

\* S_ISREG(st.st_mode) && *rel_name != '.'
is_measured(file) == file.reg /\ file.name[1] # "."

\* the while loop over the directory enumerator; acc is the list gathered so far
RECURSIVE measure_directory(_, _, _)
measure_directory(hash_alg, files, acc) ==
    IF files = <<>> THEN [null |-> FALSE, entries |-> acc]
    ELSE IF ~is_measured(Head(files))
    THEN measure_directory(hash_alg, Tail(files), acc)
    ELSE IF ~hash_file_ok(Head(files)) THEN NoMeasurements
    ELSE measure_directory(hash_alg, Tail(files),
            Append(acc, [filename |-> Head(files).name,
                         measurement |-> hash_file(hash_alg, Head(files))]))

\* strchr(filename, '/'): the position of the first '/' at or after from, 0 for NULL
RECURSIVE strchr_slash(_, _)
strchr_slash(pathname, from) ==
    IF from > Len(pathname) THEN 0
    ELSE IF pathname[from] = "/" THEN from
    ELSE strchr_slash(pathname, from + 1)

\* the loop of get_filename; pos and filename are positions in pathname
RECURSIVE get_filename_from(_, _, _)
get_filename_from(pathname, pos, filename) ==
    IF pos = 0 \/ pos + 1 > Len(pathname) THEN filename
    ELSE get_filename_from(pathname, strchr_slash(pathname, pos + 1), pos + 1)

get_filename(pathname) == SubSeq(pathname, get_filename_from(pathname, 1, 1), Len(pathname))

\* files: the entries of the directory in enumeration order if is_directory, else
\* the one file at pathname
do_measurements(pathname, is_directory, files, hasher_available, directory_opens) ==
    LET hash_alg == pts_meas_algo_to_hash(algorithm)
        measurements ==
            IF ~hasher_available THEN NoMeasurements
            ELSE IF is_directory
            THEN (IF ~directory_opens THEN NoMeasurements
                  ELSE measure_directory(hash_alg, files, <<>>))
            ELSE IF ~hash_file_ok(files[1]) THEN NoMeasurements
            ELSE [null |-> FALSE,
                  entries |-> <<[filename |-> get_filename(pathname),
                                 measurement |-> hash_file(hash_alg, files[1])]>>]
    IN
    /\ ~is_directory => Len(files) = 1
    /\ last' = [Call("do_measurements", ~measurements.null)
                   EXCEPT !.measurements = measurements]
    /\ UNCHANGED <<session, dh_hash_algorithm, negotiator, tpm_version_info,
                   registry, pcr_len, selected>>

-----------------------------------------------------------------------------
(* Diffie-Hellman nonce exchange and secret assessment value *)

\* mutant: the nonce always has the length of the secret
allocate_bytes_fixed_len(r, nonce_len) == <<Blob("rand", r, SECRET_MAX_LEN)>>

\* rng->allocate_bytes(rng, nonce_len, nonce)
allocate_bytes(r, nonce_len) == <<Blob("rand", r, nonce_len)>>

create_dh_nonce(group_supported, rng_available, nonce_len, key, r) ==
    /\ dh' = create_dh(group_supported, key)
    /\ IF ~rng_available
       THEN /\ last' = Call("create_dh_nonce", FALSE)
            /\ UNCHANGED <<initiator_nonce, responder_nonce>>
       ELSE /\ IF is_imc
               THEN /\ responder_nonce' = allocate_bytes(r, nonce_len)
                    /\ UNCHANGED initiator_nonce
               ELSE /\ initiator_nonce' = allocate_bytes(r, nonce_len)
                    /\ UNCHANGED responder_nonce
            /\ last' = Call("create_dh_nonce", TRUE)
    /\ UNCHANGED <<session, dh_hash_algorithm, secret, tpm_version_info,
                   registry, pcr_len, selected>>

\* the chunk handed out as *nonce: the chunk_t of the session itself, so that
\* nonce->ptr points to the buffer of the session
my_nonce == IF is_imc THEN responder_nonce ELSE initiator_nonce

get_my_public_value ==
    /\ dh.present
    /\ last' = [Call("get_my_public_value", TRUE) EXCEPT
                   !.value = dh.key, !.out_pcr_comp = my_nonce]
    /\ UNCHANGED <<session, dh_hash_algorithm, negotiator, tpm_version_info,
                   registry, pcr_len, selected>>

set_peer_public_value(value, nonce) ==
    /\ dh.present
    /\ dh' = set_other_public_value(dh, value)
    /\ IF is_imc
       THEN /\ initiator_nonce' = chunk_clone(nonce)
            /\ UNCHANGED responder_nonce
       ELSE /\ responder_nonce' = chunk_clone(nonce)
            /\ UNCHANGED initiator_nonce
    /\ last' = Call("set_peer_public_value", TRUE)
    /\ UNCHANGED <<session, dh_hash_algorithm, secret, tpm_version_info,
                   registry, pcr_len, selected>>

\* the bytes found in a buffer after its holder has written to it
Overwritten(c) == <<Blob("overwritten", 0, ChunkLen(c))>>

\* can the caller write to the buffer of the stored chunk c: it can if c lies in a
\* buffer of the caller, or if handed_out and the caller was given c.ptr
in_reach_of_caller(c, handed_out) ==
    c # <<>> /\ (c[1].own = "caller" \/ handed_out)

\* the caller writes to the buffers it passed to, or got from, the call just made
caller_overwrites ==
    LET got_nonce == /\ last.op = "get_my_public_value"
                     /\ last.out_pcr_comp # <<>>
                     /\ last.out_pcr_comp[1].own = "session"
        after(c, handed_out) ==
            IF in_reach_of_caller(c, handed_out) THEN Overwritten(c) ELSE c
    IN
    /\ last.op \in {"get_my_public_value", "set_peer_public_value", "add_pcr"}
    /\ initiator_nonce' = after(initiator_nonce, got_nonce /\ ~is_imc)
    /\ responder_nonce' = after(responder_nonce, got_nonce /\ is_imc)
    /\ pcrs' = [i \in 0..(PCR_MAX_NUM - 1) |-> after(pcrs[i], FALSE)]
    /\ last' = Call("caller_overwrites", TRUE)
    /\ UNCHANGED <<session, dh_hash_algorithm, dh, secret, tpm_version_info, pcr_len,
                   pcr_count, pcr_max, pcr_select, selected>>

\* mutant: the responder nonce fed to the hasher before the initiator nonce
secret_hash_input_swapped(shared_secret) ==
    chunk_from_chars(<<49>>) \o responder_nonce \o initiator_nonce \o shared_secret

\* mutant: each side feeds its own nonce first
secret_nonces_own_first ==
    IF is_imc THEN responder_nonce \o initiator_nonce
    ELSE initiator_nonce \o responder_nonce

\* the two nonces as they are fed to the hasher
secret_nonces == initiator_nonce \o responder_nonce

\* the chunks fed to the hasher, in the order of the allocate_hash calls
secret_hash_input(shared_secret) ==
    chunk_from_chars(<<49>>) \o secret_nonces \o shared_secret

\* mutant: the digest kept at its full length
truncate_secret_not(c) == c

\* this->secret.len = min(this->secret.len, 20)
truncate_secret(c) == <<[c[1] EXCEPT !.n = Min(c[1].n, SECRET_MAX_LEN)]>>

\* mutant: a refused derivation drops the stored secret
calculate_secret_refused_frees == secret' = <<>>

\* what calculate_secret does to this->secret on its early returns
calculate_secret_refused == UNCHANGED secret

calculate_secret ==
    /\ (initiator_nonce # <<>> /\ responder_nonce # <<>>) => dh.present
    /\ IF initiator_nonce = <<>> \/ responder_nonce = <<>>
       THEN /\ last' = Call("calculate_secret", FALSE)
            /\ calculate_secret_refused
       ELSE IF ~shared_secret_ok(dh)
       THEN /\ last' = Call("calculate_secret", FALSE)
            /\ calculate_secret_refused
       ELSE /\ secret' = truncate_secret(
                   allocate_hash(pts_meas_algo_to_hash(dh_hash_algorithm),
                                 secret_hash_input(shared_secret_of(dh))))
            /\ last' = [Call("calculate_secret", TRUE)
                           EXCEPT !.shared_secret = shared_secret_of(dh)]
    /\ UNCHANGED <<session, dh_hash_algorithm, dh, initiator_nonce,
                   responder_nonce, tpm_version_info, registry, pcr_len, selected>>

\* the caller turns to the object of the peer; what get_my_public_value has just
\* handed out is taken along, to be passed to set_peer_public_value there. The
\* registry of the peer is not kept in other: it is empty as pts_create left it,
\* because the caller turns away from an object only while its registry is empty.
switch_session ==
    /\ pcr_count = 0 /\ pcr_max = 0 /\ selected = {}
    /\ \A i \in 0..(PCR_MAX_NUM - 1) : pcrs[i] = <<>>
    /\ \A i \in 0..(PCR_MAX_NUM \div 8 - 1) : pcr_select[i] = 0
    /\ is_imc' = other.is_imc
    /\ has_tpm' = other.has_tpm
    /\ proto_caps' = other.proto_caps
    /\ algorithm' = other.algorithm
    /\ aik' = other.aik
    /\ dh_hash_algorithm' = other.dh_hash_algorithm
    /\ dh' = other.dh
    /\ initiator_nonce' = other.initiator_nonce
    /\ responder_nonce' = other.responder_nonce
    /\ secret' = other.secret
    /\ tpm_version_info' = other.tpm_version_info
    /\ pcr_len' = other.pcr_len
    /\ UNCHANGED <<registry, selected>>
    /\ other' =
          [is_imc |-> is_imc, has_tpm |-> has_tpm, proto_caps |-> proto_caps,
           algorithm |-> algorithm, aik |-> aik,
           dh_hash_algorithm |-> dh_hash_algorithm, dh |-> dh,
           initiator_nonce |-> initiator_nonce, responder_nonce |-> responder_nonce,
           secret |-> secret, tpm_version_info |-> tpm_version_info,
           pcr_len |-> pcr_len]
    /\ last' = IF last.op = "get_my_public_value"
               THEN [Call("switch_session", TRUE) EXCEPT
                        !.value = last.value, !.out_pcr_comp = last.out_pcr_comp]
               ELSE Call("switch_session", TRUE)

-----------------------------------------------------------------------------
(* PCR registry *)

clear_pcrs ==
    /\ pcrs' = [i \in 0..(PCR_MAX_NUM - 1) |-> IF i <= pcr_max THEN <<>> ELSE pcrs[i]]
    /\ pcr_count' = 0
    /\ pcr_max' = 0
    /\ pcr_select' = [i \in 0..(PCR_MAX_NUM \div 8 - 1) |-> 0]
    /\ selected' = {}

\* this->pcr_select[i] & f, with i = pcr / 8 and f = 1 << (pcr - 8*i)
pcr_selected(pcr) == BitAnd1(pcr_select[pcr \div 8], Pow2(pcr - 8 * (pcr \div 8)))

\* this->pcr_select[pcr / 8] |= 1 << (pcr % 8)
select_bit(pcr) == [pcr_select EXCEPT ![pcr \div 8] = BitOr1(@, Pow2(pcr % 8))]

select_pcr(pcr) ==
    /\ IF pcr >= PCR_MAX_NUM
       THEN /\ last' = Call("select_pcr", FALSE)
            /\ UNCHANGED <<registry, selected>>
       ELSE /\ IF ~pcr_selected(pcr)
               THEN /\ pcr_select' = select_bit(pcr)
                    /\ pcr_max' = Max(pcr_max, pcr)
                    /\ pcr_count' = pcr_count + 1
               ELSE UNCHANGED <<pcr_select, pcr_max, pcr_count>>
            /\ selected' = selected \cup {pcr}
            /\ last' = Call("select_pcr", TRUE)
            /\ UNCHANGED pcrs
    /\ UNCHANGED <<session, dh_hash_algorithm, negotiator, tpm_version_info,
                   pcr_len>>

\* mutant: add_pcr leaves pcr_max alone
add_pcr_max_kept(pcr) == pcr_max

\* this->pcr_max = max(this->pcr_max, pcr)
add_pcr_max(pcr) == Max(pcr_max, pcr)

\* mutant: add_pcr counts a register again when its value is replaced
add_pcr_kept_count == pcr_count + 1

\* pcr_count when the slot is populated already
add_pcr_kept == pcr_count

\* mutant: add_pcr forgets the selection bit
add_pcr_select_none(pcr) == pcr_select

\* the bitmap after add_pcr found the slot empty
add_pcr_select(pcr) == select_bit(pcr)

\* the count after add_pcr found the slot empty
add_pcr_count(pcr) == pcr_count + 1

\* mutant: a refused add_pcr takes over the length of the value it was given
add_pcr_refused_sets_len(pcr_after) ==
    /\ pcr_len' = ChunkLen(pcr_after)
    /\ UNCHANGED registry

\* what add_pcr does to the registry and the register length on its early returns
add_pcr_refused(pcr_after) == UNCHANGED <<registry, pcr_len>>

\* mutant: the length of the new value is never tested
pcr_len_mismatch_never(pcr_after) == FALSE

\* the length of the PCR registers is already set and pcr_after has another length
pcr_len_mismatch(pcr_after) == pcr_len # 0 /\ ChunkLen(pcr_after) # pcr_len

\* memeq(this->pcrs[pcr], pcr_before.ptr, this->pcr_len): the same bytes, in
\* whichever buffers
memeq(x, y) ==
    [i \in DOMAIN x |-> [x[i] EXCEPT !.own = ""]] = [i \in DOMAIN y |-> [y[i] EXCEPT !.own = ""]]

add_pcr(pcr, pcr_before, pcr_after) ==
    /\ IF pcr >= PCR_MAX_NUM
       THEN /\ last' = Call("add_pcr", FALSE)
            /\ add_pcr_refused(pcr_after)
       ELSE IF pcr_len_mismatch(pcr_after)
       THEN /\ last' = Call("add_pcr", FALSE)
            /\ add_pcr_refused(pcr_after)
       ELSE /\ pcr_len' = (IF pcr_len # 0 THEN pcr_len ELSE ChunkLen(pcr_after))
            /\ IF pcrs[pcr] # <<>>
               THEN /\ pcr_count' = add_pcr_kept
                    /\ UNCHANGED <<pcr_select, pcr_max>>
               ELSE /\ pcr_select' = add_pcr_select(pcr)
                    /\ pcr_max' = add_pcr_max(pcr)
                    /\ pcr_count' = add_pcr_count(pcr)
            /\ pcrs' = [pcrs EXCEPT ![pcr] = chunk_clone(pcr_after)]
            /\ last' = [Call("add_pcr", TRUE) EXCEPT
                            !.replaced = /\ pcrs[pcr] # <<>>
                                         /\ ~memeq(pcrs[pcr], pcr_before)]
    /\ UNCHANGED <<session, dh_hash_algorithm, negotiator, tpm_version_info,
                   selected>>

-----------------------------------------------------------------------------
(* TPM Quote Info construction *)

\* size_of_select = max(PCR_MAX_NUM / 8, 1 + this->pcr_max / 8), a u_int8_t
size_of_select == Max(PCR_MAX_NUM \div 8, 1 + pcr_max \div 8) % 256

\* the selection bytes pcr_select[0 .. size_of_select-1] as written
RECURSIVE write_select(_, _)
write_select(i, n) ==
    IF i >= n THEN <<>> ELSE write_uint8(pcr_select[i]) \o write_select(i + 1, n)

\* mutant: the registers written from the highest index down
RECURSIVE write_pcrs_descending(_, _)
write_pcrs_descending(i, n) ==
    IF i >= n THEN <<>>
    ELSE (IF pcrs[n - 1] # <<>> THEN chunk_create(pcrs[n - 1], pcr_len) ELSE <<>>)
         \o write_pcrs_descending(i, n - 1)

\* the loop over i = from .. 8*size_of_select - 1 writing the assigned registers
RECURSIVE write_pcrs(_, _)
write_pcrs(i, n) ==
    IF i >= n THEN <<>>
    ELSE (IF pcrs[i] # <<>> THEN chunk_create(pcrs[i], pcr_len) ELSE <<>>)
         \o write_pcrs(i + 1, n)

\* the length field of the TPM_PCR_COMPOSITE (write_uint32 keeps its low 32 bits)
pcr_value_size == pcr_count * pcr_len

\* the TPM_PCR_COMPOSITE structure
pcr_composite ==
    write_uint16(size_of_select)
    \o write_select(0, size_of_select)
    \o write_uint32(pcr_value_size)
    \o write_pcrs(0, 8 * size_of_select)

\* the chunk written to *out_pcr_comp
out_pcr_comp_of(comp_hash_algo, pcr_comp) ==
    IF comp_hash_algo # PTS_MEAS_ALGO_NONE
    THEN allocate_hash(pts_meas_algo_to_hash(comp_hash_algo), pcr_comp)
    ELSE pcr_comp

\* mutant: the version info is never appended
quote_info2_no_version(use_ver_info, hash_pcr_comp) ==
    write_uint16(TPM_TAG_QUOTE_INFO2)
    \o MagicQUT2
    \o secret
    \o write_uint16(size_of_select)
    \o write_select(0, size_of_select)
    \o write_uint8(TPM_LOC_ZERO)
    \o hash_pcr_comp

\* the TPM_QUOTE_INFO2 structure
quote_info2(use_ver_info, hash_pcr_comp) ==
    write_uint16(TPM_TAG_QUOTE_INFO2)
    \o MagicQUT2
    \o secret
    \o write_uint16(size_of_select)
    \o write_select(0, size_of_select)
    \o write_uint8(TPM_LOC_ZERO)
    \o hash_pcr_comp
    \o (IF use_ver_info THEN tpm_version_info ELSE <<>>)

\* mutant: the secret written before the composite hash
quote_info_secret_first(hash_pcr_comp) ==
    chunk_from_chars(<<1, 1, 0, 0>>)
    \o MagicQUOT
    \o secret
    \o hash_pcr_comp

\* the TPM_QUOTE_INFO structure
quote_info(hash_pcr_comp) ==
    chunk_from_chars(<<1, 1, 0, 0>>)
    \o MagicQUOT
    \o hash_pcr_comp
    \o secret

\* mutant: the early returns clear the registry too
get_quote_info_refused_clears == clear_pcrs

\* what get_quote_info does to the registry on its early returns
get_quote_info_refused == UNCHANGED <<registry, selected>>

\* mutant: the number of extended registers is not tested
no_pcr_entries_ignored == FALSE

\* this->pcr_count == 0
no_pcr_entries == pcr_count = 0

\* mutant: the version info is demanded for the legacy structure too
version_info_unavailable_any_format(use_quote2, use_ver_info) ==
    use_ver_info /\ tpm_version_info = <<>>

\* use_quote2 && use_ver_info && !this->tpm_version_info.ptr
version_info_unavailable(use_quote2, use_ver_info) ==
    use_quote2 /\ use_ver_info /\ tpm_version_info = <<>>

get_quote_info(use_quote2, use_ver_info, comp_hash_algo) ==
    LET refused == [Call("get_quote_info", FALSE) EXCEPT
                        !.use_quote2 = use_quote2, !.use_ver_info = use_ver_info,
                        !.after_built = (last.op = "get_quote_info" /\ last.ret)]
        hash_pcr_comp == allocate_hash(HASH_SHA1, pcr_composite)
    IN
    /\ comp_hash_algo # PTS_MEAS_ALGO_NONE
          => pts_meas_algo_to_hash(comp_hash_algo) # HASH_UNKNOWN
    /\ IF no_pcr_entries
       THEN /\ last' = refused
            /\ get_quote_info_refused
       ELSE IF secret = <<>>
       THEN /\ last' = refused
            /\ get_quote_info_refused
       ELSE IF version_info_unavailable(use_quote2, use_ver_info)
       THEN /\ last' = refused
            /\ get_quote_info_refused
       ELSE /\ last' = [Call("get_quote_info", TRUE) EXCEPT
                            !.use_quote2 = use_quote2,
                            !.use_ver_info = use_ver_info,
                            !.after_built = (last.op = "get_quote_info" /\ last.ret),
                            !.pcr_comp = pcr_composite,
                            !.out_pcr_comp = out_pcr_comp_of(comp_hash_algo, pcr_composite),
                            !.out_quote_info =
                                IF use_quote2
                                THEN quote_info2(use_ver_info, hash_pcr_comp)
                                ELSE quote_info(hash_pcr_comp)]
            /\ clear_pcrs
    /\ UNCHANGED <<session, dh_hash_algorithm, negotiator, tpm_version_info,
                   pcr_len>>

-----------------------------------------------------------------------------
(* TPM Quote through the TSS *)

\* the TSS calls of quote_tpm, in order; fail_at names the first one that fails
QuoteSteps ==
    <<"Tspi_Context_Create", "Tspi_Context_Connect", "Tspi_Context_GetTpmObject",
      "Tspi_Context_LoadKeyByUUID", "Tspi_GetPolicyObject", "Tspi_Policy_SetSecret",
      "Tspi_Context_LoadKeyByBlob", "Tspi_Context_CreateObject",
      "Tspi_PcrComposite_SelectPcrIndex", "Tspi_TPM_Quote">>

\* is a register selected in 0..pcr_max, so that Tspi_PcrComposite_SelectPcrIndex is called
some_pcr_selected == \E pcr \in 0..pcr_max : pcr_selected(pcr)

\* mutant: every exit runs through all four labels
quote_tpm_cleanup_from_err4(fail_at) ==
    <<TssCall("Tspi_Context_FreeMemory", TRUE),
      TssCall("Tspi_Context_CloseObject(hPcrComposite)", TRUE),
      TssCall("Tspi_Context_CloseObject(hAIK)", TRUE),
      TssCall("Tspi_Context_Close", TRUE)>>

\* the labels err4, err3, err2, err1 the call runs through when it fails at
\* fail_at or succeeds
quote_tpm_cleanup(fail_at) ==
    LET err == <<TssCall("Tspi_Context_FreeMemory", TRUE),
                 TssCall("Tspi_Context_CloseObject(hPcrComposite)", TRUE),
                 TssCall("Tspi_Context_CloseObject(hAIK)", TRUE),
                 TssCall("Tspi_Context_Close", TRUE)>>
    IN CASE fail_at \in {"Tspi_TPM_Quote", "none"} -> err
         [] fail_at = "Tspi_PcrComposite_SelectPcrIndex" -> SubSeq(err, 2, 4)
         [] fail_at = "Tspi_Context_CreateObject" -> SubSeq(err, 3, 4)
         [] fail_at = "Tspi_Context_Create" -> <<>>
         [] OTHER -> SubSeq(err, 4, 4)

\* the TSS calls of quote_tpm; the loop over the selected registers is one entry
quote_tpm_tss(fail_at) ==
    LET steps == IF fail_at \in {"Tspi_TPM_Quote", "none"} /\ ~some_pcr_selected
                 THEN SubSeq(QuoteSteps, 1, 8) \o <<"Tspi_TPM_Quote">>
                 ELSE QuoteSteps
    IN tss_until(steps, fail_at) \o quote_tpm_cleanup(fail_at)

\* mutant: the registry is cleared only when the quote was obtained
quote_tpm_clears_on_success(fail_at) == fail_at = "none"

\* does the return path reach clear_pcrs(this): every path but the return after a
\* failed Tspi_Context_Create
quote_tpm_clears(fail_at) == fail_at # "Tspi_Context_Create"

quote_tpm(use_quote2, fail_at) ==
    /\ fail_at = "Tspi_PcrComposite_SelectPcrIndex" => some_pcr_selected
    /\ IF ~quote_tpm_clears(fail_at)
       THEN /\ last' = [Call("quote_tpm", FALSE) EXCEPT
                            !.use_quote2 = use_quote2,
                            !.tss = quote_tpm_tss(fail_at)]
            /\ UNCHANGED <<registry, selected>>
       ELSE /\ last' = [Call("quote_tpm", fail_at = "none") EXCEPT
                            !.use_quote2 = use_quote2,
                            !.tss = quote_tpm_tss(fail_at),
                            !.cleared = TRUE,
                            !.freed = {i \in 0..pcr_max : pcrs[i] # <<>>},
                            !.out_pcr_comp =
                                IF fail_at = "none"
                                THEN <<Blob("tpm_composite_hash", 1, HASH_SIZE_SHA1)>>
                                ELSE <<>>]
            /\ clear_pcrs
    /\ UNCHANGED <<session, dh_hash_algorithm, negotiator, tpm_version_info,
                   pcr_len>>

-----------------------------------------------------------------------------
(* Reading and extending registers of the TPM *)

ReadPcrSteps ==
    <<"Tspi_Context_Create", "Tspi_Context_Connect", "Tspi_Context_GetTpmObject",
      "Tspi_TPM_PcrRead">>

\* the value is returned in last.out_pcr_comp
read_pcr(pcr_num, fail_at) ==
    /\ last' = [Call("read_pcr", fail_at = "none") EXCEPT
                   !.tss = tss_until(ReadPcrSteps, fail_at)
                             \o (IF fail_at = "Tspi_Context_Create" THEN <<>> ELSE tss_err),
                   !.out_pcr_comp = IF fail_at = "none"
                                    THEN chunk_clone(<<Blob("tpm_pcr", pcr_num, PCR_LEN)>>)
                                    ELSE <<>>]
    /\ UNCHANGED <<session, dh_hash_algorithm, negotiator, tpm_version_info,
                   registry, pcr_len, selected>>

\* pcr_value = chunk_alloc(PCR_LEN) stands between the TSS calls
ExtendPcrSteps ==
    <<"Tspi_Context_Create", "Tspi_Context_Connect", "Tspi_Context_GetTpmObject",
      "chunk_alloc(pcr_value)", "Tspi_TPM_PcrExtend">>

\* was pcr_value assigned before the jump to err
pcr_value_allocated(fail_at) ==
    fail_at \notin {"Tspi_Context_Connect", "Tspi_Context_GetTpmObject"}

\* both exits run chunk_clear(&pcr_value), Tspi_Context_FreeMemory and
\* Tspi_Context_Close. When pcr_value was never assigned, chunk_clear reads an
\* indeterminate pointer: it does nothing if that happens to be NULL (garbage_null),
\* and otherwise wipes and frees memory that was never allocated, which is a fault.
\* The extended value is returned in last.out_pcr_comp.
extend_pcr(pcr_num, input, fail_at, garbage_null) ==
    LET calls == tss_until(ExtendPcrSteps, fail_at)
        wild == ~pcr_value_allocated(fail_at) /\ ~garbage_null
    IN
    /\ pcr_value_allocated(fail_at) => garbage_null
    /\ last' = [Call("extend_pcr", fail_at = "none") EXCEPT
                   !.tss = IF fail_at = "Tspi_Context_Create" THEN calls
                           ELSE IF wild
                           THEN calls \o <<TssCall("chunk_clear(pcr_value)", FALSE)>>
                           ELSE calls \o <<TssCall("chunk_clear(pcr_value)", TRUE)>>
                                      \o tss_err,
                   !.fault = fail_at # "Tspi_Context_Create" /\ wild,
                   !.out_pcr_comp =
                       IF fail_at = "none"
                       THEN chunk_clone(<<Blob("tpm_pcr_extended", pcr_num, PCR_LEN)>>)
                       ELSE <<>>]
    /\ UNCHANGED <<session, dh_hash_algorithm, negotiator, tpm_version_info,
                   registry, pcr_len, selected>>

-----------------------------------------------------------------------------
(* Inputs *)

\* register indexes the callers use, and one beyond the table
IdxSeq == <<0, 1, 23, 8, 16, 9>>
PcrInputs == {IdxSeq[k] : k \in 1..NumIdx} \cup {PCR_MAX_NUM}

\* value number j of register pcr, len bytes long
PcrValue(pcr, j, len) == <<CallerBlob("pcr", 10 * pcr + j, len)>>

\* the values the callers report for register pcr: one of PCR_LEN bytes for every
\* register, and for the first register a second one and one of another length
PcrValues(pcr) ==
    {PcrValue(pcr, 1, PCR_LEN)}
    \cup (IF pcr = IdxSeq[1]
          THEN {PcrValue(pcr, 2, PCR_LEN), PcrValue(pcr, 1, 32)} ELSE {})

PeerNonce(j) == <<CallerBlob("peer", j, 20)>>
PeerNonces == {PeerNonce(j) : j \in 1..MaxPeer}
PeerValues == {0, 1}
HashAlgoInputs == {PTS_MEAS_ALGO_NONE, PTS_MEAS_ALGO_SHA1, PTS_MEAS_ALGO_SHA384}
CompHashAlgoInputs == {PTS_MEAS_ALGO_NONE, PTS_MEAS_ALGO_SHA256}
\* the three ways quote_tpm can end for the registry: left alone, cleared with
\* failure, cleared with success (every failing call is taken in SpecTss)
QuoteFailInputs == {QuoteSteps[1], QuoteSteps[2], "none"}

-----------------------------------------------------------------------------
(* The registry and the quote structures, driven by one DH exchange *)

Next ==
    \/ set_tpm_version_info(VersionInfoBlob)
    \/ create_dh_nonce(TRUE, TRUE, PCR_LEN, 1, 1)
    \/ set_peer_public_value(1, PeerNonce(1))
    \/ calculate_secret
    \/ \E pcr \in PcrInputs : select_pcr(pcr)
    \/ \E pcr \in PcrInputs : \E pcr_after \in PcrValues(pcr) :
          add_pcr(pcr, PcrValue(pcr, 1, PCR_LEN), pcr_after)
    \/ \E use_quote2, use_ver_info \in BOOLEAN, comp_hash_algo \in CompHashAlgoInputs :
          get_quote_info(use_quote2, use_ver_info, comp_hash_algo)
    \/ \E fail_at \in QuoteFailInputs : quote_tpm(FALSE, fail_at)

Spec == Init /\ [][Next]_vars

(* The DH exchange and the secret, with the registry used on one register *)

NextDH ==
    \/ \E algo \in HashAlgoInputs : set_dh_hash_algorithm(algo)
    \/ \E group_supported, rng_available \in BOOLEAN, r \in 1..MaxRand :
          create_dh_nonce(group_supported, rng_available, SECRET_MAX_LEN, r, r)
    \/ get_my_public_value
    \/ \E value \in PeerValues, nonce \in PeerNonces : set_peer_public_value(value, nonce)
    \/ calculate_secret
    \/ select_pcr(0)
    \/ add_pcr(0, PcrValue(0, 1, PCR_LEN), PcrValue(0, 1, PCR_LEN))
    \/ get_quote_info(FALSE, FALSE, PTS_MEAS_ALGO_NONE)

SpecDH == Init /\ [][NextDH]_vars

(* The nonces of both roles and the buffers shared with the caller *)

NonceLens == {16, 20, 32}

NextNonce ==
    \/ \E group_supported, rng_available \in BOOLEAN, nonce_len \in NonceLens,
          r \in 1..MaxRand :
          create_dh_nonce(group_supported, rng_available, nonce_len, r, r)
    \/ get_my_public_value
    \/ \E value \in PeerValues, nonce \in PeerNonces : set_peer_public_value(value, nonce)
    \/ calculate_secret
    \/ add_pcr(0, PcrValue(0, 1, PCR_LEN), PcrValue(0, 1, PCR_LEN))
    \/ caller_overwrites

SpecNonce == Init /\ [][NextNonce]_vars

(* The capability flags, the algorithm selectors and the AIK certificate *)

CapsInputs ==
    {{}, {PTS_PROTO_CAPS_V}, {PTS_PROTO_CAPS_V, PTS_PROTO_CAPS_T, PTS_PROTO_CAPS_D}}
AikInputs == {Certificate(TRUE), Certificate(FALSE)}

\* no call is made on a process that has faulted
alive == ~last.fault

NextSession ==
    \/ alive /\ \E flags \in CapsInputs : set_proto_caps(flags)
    \/ alive /\ \E algo \in HashAlgoInputs : set_meas_algorithm(algo)
    \/ alive /\ \E algo \in HashAlgoInputs : set_dh_hash_algorithm(algo)
    \/ alive /\ \E cert \in AikInputs : set_aik(cert)
    \/ alive /\ \E verified \in BOOLEAN : verify_quote_signature(verified)

SpecSession == Init /\ [][NextSession]_vars

(* File measurements and path validation *)

File(name, reg, status, id) == [name |-> name, reg |-> reg, status |-> status, id |-> id]
FileStates == {"ok", "unopenable", "read_error"}

\* directories with the regular files a and b, the dot-file .h and the
\* subdirectory s, in two enumeration orders, and the empty directory
Directories ==
    {<<File(<<"a">>, TRUE, "ok", 1), File(<<".", "h">>, TRUE, h, 3),
       File(<<"s">>, FALSE, "ok", 4), File(<<"b">>, TRUE, b, 2)>> :
          h \in {"ok", "unopenable"}, b \in FileStates}
    \cup {<<File(<<"b">>, TRUE, b, 2), File(<<"a">>, TRUE, "ok", 1)>> : b \in FileStates}
    \cup {<<>>}

Pathnames == {<<"/", "d", "/", "a">>, <<"a", "b">>}
Errnos == {"0", "ENOENT", "ENOTDIR", "EFAULT", "EACCES", "ELOOP"}

NextMeas ==
    \/ \E algo \in HashAlgoInputs : set_meas_algorithm(algo)
    \/ \E errno \in Errnos : is_path_valid(errno)
    \/ \E files \in Directories, hasher_available, directory_opens \in BOOLEAN :
          do_measurements(<<"/", "d">>, TRUE, files, hasher_available, directory_opens)
    \/ \E pathname \in Pathnames, status \in FileStates, hasher_available \in BOOLEAN :
          do_measurements(pathname, FALSE, <<File(get_filename(pathname), TRUE, status, 1)>>,
                          hasher_available, TRUE)

SpecMeas == Init /\ [][NextMeas]_vars

(* One DH exchange between the two objects *)

\* the bytes of a chunk as they arrive in a buffer of the caller on the other side
received(c) == [i \in 1..Len(c) |-> [c[i] EXCEPT !.own = "caller"]]

\* the DH key create_dh draws for the measurer and for the verifier, and the
\* public value of a third party
PairKey == IF is_imc THEN 1 ELSE 2
ForeignValue == 3

\* each object runs one exchange: create_dh_nonce while it has no nonce of its own,
\* and nothing once it has derived its secret
NextPair ==
    \/ secret = <<>> /\ \E algo \in HashAlgoInputs : set_dh_hash_algorithm(algo)
    \/ my_nonce = <<>> /\ \E nonce_len \in NonceLens :
          create_dh_nonce(TRUE, TRUE, nonce_len, PairKey, PairKey)
    \/ secret = <<>> /\ get_my_public_value
    \/ switch_session
    \/ /\ secret = <<>> /\ last.op = "switch_session" /\ last.value # 0
       /\ set_peer_public_value(last.value, received(last.out_pcr_comp))
    \/ secret = <<>> /\ \E nonce \in PeerNonces : set_peer_public_value(ForeignValue, nonce)
    \/ secret = <<>> /\ calculate_secret

SpecPair == Init /\ [][NextPair]_vars

(* The calls that talk to the TPM, every TSS call failing in turn *)

TssFailInputs(steps) ==
    ({steps[k] : k \in 1..Len(steps)} \ {"chunk_alloc(pcr_value)"}) \cup {"none"}

NextTss ==
    \/ alive /\ \E pcr \in PcrInputs : select_pcr(pcr)
    \/ alive /\ \E pcr \in PcrInputs : \E pcr_after \in PcrValues(pcr) :
          add_pcr(pcr, PcrValue(pcr, 1, PCR_LEN), pcr_after)
    \/ alive /\ \E pcr_num \in {0, 1}, fail_at \in TssFailInputs(ReadPcrSteps) :
          read_pcr(pcr_num, fail_at)
    \/ alive /\ \E pcr_num \in {0, 1}, fail_at \in TssFailInputs(ExtendPcrSteps),
                   garbage_null \in BOOLEAN :
          extend_pcr(pcr_num, PcrValue(pcr_num, 1, PCR_LEN), fail_at, garbage_null)
    \/ alive /\ \E use_quote2 \in BOOLEAN, fail_at \in TssFailInputs(QuoteSteps) :
          quote_tpm(use_quote2, fail_at)

SpecTss == Init /\ [][NextTss]_vars

-----------------------------------------------------------------------------
(* Reading the structures back *)

BytesOf(bs) ==
    [i \in 1..Len(bs) |->
        [k |-> "byte", v |-> bs[i], n |-> 1, alg |-> "", src |-> <<>>, own |-> "session"]]
DigestOf(hash_alg, data, len) ==
    <<[k |-> "hash", v |-> 0, n |-> len, alg |-> hash_alg, src |-> data, own |-> "session"]>>

U16At(c, p) == 256 * c[p].v + c[p + 1].v
U32At(c, p) == 16777216 * c[p].v + 65536 * c[p + 1].v + 256 * c[p + 2].v + c[p + 3].v

\* bit (i mod 8) of byte (i div 8) of a bitmap given as [0..2 -> byte]
BitOf(bitmap, i) == (bitmap[i \div 8] \div Pow2(i % 8)) % 2 = 1

RegistryEmpty ==
    /\ \A i \in 0..(PCR_MAX_NUM - 1) : pcrs[i] = <<>>
    /\ pcr_count = 0
    /\ pcr_max = 0
    /\ \A i \in 0..(PCR_MAX_NUM \div 8 - 1) : pcr_select[i] = 0

Populated == {i \in 0..(PCR_MAX_NUM - 1) : pcrs[i] # <<>>}

SetMin(S) == CHOOSE m \in S : \A x \in S : m <= x

\* the values of the registers in S, lowest index first
RECURSIVE ValuesAscending(_)
ValuesAscending(S) ==
    IF S = {} THEN <<>>
    ELSE pcrs[SetMin(S)] \o ValuesAscending(S \ {SetMin(S)})

QuoteBuilt == last.op = "get_quote_info" /\ last.ret

-----------------------------------------------------------------------------
(* C1 *)

\* C1 as stated: whenever get_quote_info has returned, on success or on an early
\* failure, the registry is empty (no slot, count 0, max 0, bitmap zero).
C1_ClearedOnEveryReturn == last.op = "get_quote_info" => RegistryEmpty

\* C1 amended: a get_quote_info that returns success leaves the registry empty; one
\* that returns failure early leaves slots, count, max and bitmap as they were.
C1_ClearedOnSuccessOnly ==
    [][last'.op = "get_quote_info" =>
          IF last'.ret THEN RegistryEmpty' ELSE UNCHANGED registry]_vars

\* a refused get_quote_info (no secret) on a registry that holds registers
C1_Witness == last.op = "get_quote_info" /\ ~last.ret /\ pcr_count > 0 /\ Populated # {}

(* C2 *)

\* C2: pcr_count equals the number of bits set in pcr_select in every reachable state.
C2_CountIsBitCount ==
    pcr_count = Cardinality({i \in 0..(PCR_MAX_NUM - 1) : BitOf(pcr_select, i)})

(* C3 *)

\* C3: in the composite of a successful get_quote_info the 4-byte length field equals
\* the number of value bytes that follow it.
C3_LengthFieldIsValueBytes ==
    QuoteBuilt =>
        LET comp == last.pcr_comp
            w == U16At(comp, 1)
        IN U32At(comp, 3 + w) = ChunkLen(SubSeq(comp, 7 + w, Len(comp)))

(* C4 *)

\* the nonce a role generated itself, and the one it took from its peer
NonceOfKind(kind) ==
    IF initiator_nonce # <<>> /\ initiator_nonce[1].k = kind THEN initiator_nonce
    ELSE IF responder_nonce # <<>> /\ responder_nonce[1].k = kind THEN responder_nonce
    ELSE <<>>
MeasurerNonce == NonceOfKind(IF is_imc THEN "rand" ELSE "peer")
VerifierNonce == NonceOfKind(IF is_imc THEN "peer" ELSE "rand")

SecretDerived == last.op = "calculate_secret" /\ last.ret

\* C4 as stated: the secret is the DH-hash digest of "1", then the measurer's nonce,
\* then the verifier's nonce, then the shared secret.
C4_MeasurerNonceFirst ==
    SecretDerived =>
        /\ secret[1].alg = pts_meas_algo_to_hash(dh_hash_algorithm)
        /\ secret[1].src =
              BytesOf(<<49>>) \o MeasurerNonce \o VerifierNonce \o last.shared_secret

\* C4 amended: the secret is the DH-hash digest of "1", then the verifier's nonce
\* (the initiator nonce), then the measurer's nonce (the responder nonce), then the
\* shared secret.
C4_VerifierNonceFirst ==
    SecretDerived =>
        /\ secret[1].k = "hash"
        /\ secret[1].alg = pts_meas_algo_to_hash(dh_hash_algorithm)
        /\ secret[1].src =
              BytesOf(<<49>>) \o VerifierNonce \o MeasurerNonce \o last.shared_secret
        /\ MeasurerNonce # <<>> /\ VerifierNonce # <<>>

\* a secret derived by a measurer and one derived by a verifier are both reached
C4_Witness == SecretDerived /\ is_imc /\ MeasurerNonce[1].k = "rand"

(* C5 *)

C6_FailsClosedAndBounded ==
    [][last'.op = "calculate_secret" =>
          /\ (initiator_nonce = <<>> \/ responder_nonce = <<>> \/ dh.peer = 0)
                => (~last'.ret /\ secret' = secret)
          /\ last'.ret =>
                /\ ChunkLen(secret') <= 20
                /\ secret' =
                      DigestOf(pts_meas_algo_to_hash(dh_hash_algorithm),
                               BytesOf(<<49>>) \o initiator_nonce \o responder_nonce
                                   \o last'.shared_secret,
                               ChunkLen(secret'))]_vars

\* a SHA-256 digest cut down to 20 bytes
C6_Witness == SecretDerived /\ secret[1].alg = HASH_SHA256 /\ ChunkLen(secret) = 20

(* C7 *)

LegacyBuilt == QuoteBuilt /\ ~last.use_quote2

\* the TPM_QUOTE_INFO with a given version constant and total size
LegacyLayout(version, size) ==
    LET out == last.out_quote_info IN
    /\ ChunkLen(out) = size
    /\ Len(out) = 10
    /\ SubSeq(out, 1, 4) = BytesOf(version)
    /\ SubSeq(out, 5, 8) = BytesOf(<<81, 85, 79, 84>>)
    /\ SubSeq(out, 9, 9) = DigestOf(HASH_SHA1, last.pcr_comp, 20)
    /\ SubSeq(out, 10, 10) = secret
    /\ ChunkLen(secret) = 20

\* C7 as stated: the legacy quote info is 56 bytes: 01 00 00 00, "QUOT", the SHA-1 of
\* the composite, the secret.
C7_Legacy56Version1000 == LegacyBuilt => LegacyLayout(<<1, 0, 0, 0>>, 56)

\* C7 amended: the legacy quote info is 48 bytes: 01 01 00 00, "QUOT", the 20-byte
\* SHA-1 of the composite, the 20-byte secret.
C7_Legacy48Version1100 == LegacyBuilt => LegacyLayout(<<1, 1, 0, 0>>, 48)

C7_Witness == LegacyBuilt /\ Len(last.pcr_comp) > 9

(* C8 *)

ExtendedBuilt == QuoteBuilt /\ last.use_quote2

\* C8: the extended quote info is tag 0x0036, "QUT2", the 20-byte secret, the 2-byte
\* selection width, that many bitmap bytes, one locality byte, the SHA-1 of the
\* composite, and the version info exactly when use_ver_info (52 bytes without it).
C8_ExtendedLayout ==
    ExtendedBuilt =>
        LET out == last.out_quote_info
            comp == last.pcr_comp
            w == U16At(comp, 1)
        IN
        /\ SubSeq(out, 1, 2) = BytesOf(<<0, 54>>)
        /\ SubSeq(out, 3, 6) = BytesOf(<<81, 85, 84, 50>>)
        /\ SubSeq(out, 7, 7) = secret
        /\ ChunkLen(secret) = 20
        /\ U16At(out, 8) = w
        /\ SubSeq(out, 10, 9 + w) = SubSeq(comp, 3, 2 + w)
        /\ out[10 + w].k = "byte"
        /\ SubSeq(out, 11 + w, 11 + w) = DigestOf(HASH_SHA1, comp, 20)
        /\ SubSeq(out, 12 + w, Len(out)) =
              (IF last.use_ver_info THEN tpm_version_info ELSE <<>>)
        /\ last.use_ver_info => tpm_version_info # <<>>
        /\ ~last.use_ver_info => ChunkLen(out) = 52

C8_Witness == ExtendedBuilt /\ last.use_ver_info /\ ChunkLen(last.out_quote_info) > 52

(* C9 *)

\* C9: in the composite, bit (i mod 8) of bitmap byte (i div 8) is set exactly for the
\* registers recorded or selected since the last clear, the selection width is
\* max(3, 1 + pcr_max / 8) = 3, and the value block is the recorded values in
\* ascending index order.
C9_BitmapAndValueOrder ==
    [][(last'.op = "get_quote_info" /\ last'.ret) =>
          LET comp == last'.pcr_comp IN
          /\ U16At(comp, 1) = 3
          /\ U16At(comp, 1) = Max(3, 1 + pcr_max \div 8)
          /\ \A i \in 0..(PCR_MAX_NUM - 1) :
                ((comp[3 + i \div 8].v \div Pow2(i % 8)) % 2 = 1)
                   <=> (pcrs[i] # <<>> \/ i \in selected)
          /\ SubSeq(comp, 10, Len(comp)) = ValuesAscending(Populated)]_vars

\* registers 0, 1 and 23 recorded: bitmap 03 00 80 and three values
C9_Witness ==
    /\ QuoteBuilt
    /\ SubSeq(last.pcr_comp, 3, 5) = BytesOf(<<3, 0, 128>>)
    /\ Len(last.pcr_comp) = 12
    /\ ChunkLen(SubSeq(last.pcr_comp, 10, 12)) = 3 * pcr_len
    /\ pcr_len > 0

(* C10 *)

\* C10: a bit of the selection bitmap is set exactly when its slot holds a value or
\* the register was selected since the last clear.
C10_BitIffRecordedOrSelected ==
    \A i \in 0..(PCR_MAX_NUM - 1) :
        BitOf(pcr_select, i) <=> (pcrs[i] # <<>> \/ i \in selected)

\* one register recorded but not selected, one selected but not recorded
C10_Witness ==
    /\ \E i \in Populated : i \notin selected
    /\ \E i \in selected : i \notin Populated
    /\ \E i \in 0..(PCR_MAX_NUM - 1) : ~BitOf(pcr_select, i)

(* C11 *)

\* what C11 says of failing calls: an add_pcr whose value has another length than
\* the register length already fixed, and a select_pcr or add_pcr with an index of
\* 24 or more, return failure and leave slots, bitmap, pcr_count, pcr_max and the
\* register length unchanged; every other add_pcr succeeds with register length L.
C11_Refusals ==
    /\ last'.op = "add_pcr" =>
          \A pcr \in PcrInputs : \A v \in PcrValues(pcr) :
             \/ IF pcr >= 24 \/ (pcr_len # 0 /\ ChunkLen(v) # pcr_len)
                THEN ~last'.ret /\ UNCHANGED <<registry, pcr_len>>
                ELSE last'.ret /\ pcr_len' = ChunkLen(v)
             \/ ~add_pcr(pcr, PcrValue(pcr, 1, PCR_LEN), v)
    /\ last'.op = "select_pcr" =>
          \A pcr \in PcrInputs :
             (select_pcr(pcr) /\ pcr >= 24)
                => (~last'.ret /\ UNCHANGED <<registry, pcr_len>>)

\* C11 as stated: the register length is the length L of the first value given to
\* add_pcr, so on a session on which no call was made yet add_pcr(index, _, value)
\* with index in 0..23 leaves the register length L; failing calls as above.
C11_LengthFromFirstRecord ==
    [][/\ C11_Refusals
       /\ (last.op = "pts_create" /\ last'.op = "add_pcr") =>
             \A pcr \in PcrInputs : \A v \in PcrValues(pcr) :
                (add_pcr(pcr, PcrValue(pcr, 1, PCR_LEN), v) /\ pcr < 24)
                   => pcr_len' = ChunkLen(v)]_vars

\* C11 amended: an add_pcr with index in 0..23 that returns success leaves the
\* register length L; the register length is non-zero from the creation of a
\* measurer with a TPM (20) or from the first successful add_pcr, and from then on
\* an add_pcr with a value of another length, like any select_pcr or add_pcr with
\* index >= 24, returns failure and leaves slots, bitmap, pcr_count, pcr_max and
\* register length unchanged.
C11_LengthFromCreateOrRecord ==
    [][/\ C11_Refusals
       /\ (last.op = "pts_create" /\ has_tpm) => pcr_len = PCR_LEN
       /\ (last.op = "pts_create" /\ ~has_tpm) => pcr_len = 0]_vars

\* a register length of 32 fixed by add_pcr, and an add_pcr refused after it
C11_Witness ==
    /\ ~has_tpm /\ pcr_len = 32 /\ Populated # {}
    /\ last.op = "add_pcr" /\ ~last.ret

(* C12 *)

\* C12: a non-zero register length is never changed by any call, and every value
\* held in a slot has exactly the register length.
C12_LengthFixedOnceSet ==
    [][/\ pcr_len # 0 => pcr_len' = pcr_len
       /\ \A i \in 0..(PCR_MAX_NUM - 1) :
             pcrs'[i] # <<>> => ChunkLen(pcrs'[i]) = pcr_len']_vars

\* a length of 32 fixed by add_pcr that outlived the clearing of the registry by a
\* successful get_quote_info
C12_Witness == QuoteBuilt /\ RegistryEmpty /\ pcr_len = 32

(* C13 *)

\* C13: a get_quote_info made right after a successful get_quote_info returns
\* failure; more generally a successful get_quote_info needs pcr_count > 0 and
\* leaves pcr_count = 0, and only select_pcr and add_pcr raise pcr_count from 0.
C13_SingleShot ==
    [][/\ (QuoteBuilt /\ last'.op = "get_quote_info") => ~last'.ret
       /\ (last'.op = "get_quote_info" /\ last'.ret) => (pcr_count > 0 /\ pcr_count' = 0)
       /\ (pcr_count = 0 /\ pcr_count' > 0) => last'.op \in {"select_pcr", "add_pcr"}]_vars

\* the second of two get_quote_info calls in a row, refused after the first succeeded
C13_Witness ==
    /\ last.op = "get_quote_info" /\ ~last.ret /\ last.after_built
    /\ secret # <<>> /\ RegistryEmpty

(* C14 *)

\* C14: get_quote_info returns failure and writes neither output exactly when no
\* register is selected or recorded, or no secret is held, or use_quote2 and
\* use_ver_info are both set and no version info is held; otherwise (version info
\* absent included) it returns success and writes both outputs.
C14_RefusedWithoutOutputs ==
    [][last'.op = "get_quote_info" =>
          IF \/ pcr_count = 0
             \/ secret = <<>>
             \/ (last'.use_quote2 /\ last'.use_ver_info /\ tpm_version_info = <<>>)
          THEN ~last'.ret /\ last'.out_pcr_comp = <<>> /\ last'.out_quote_info = <<>>
          ELSE last'.ret /\ last'.out_pcr_comp # <<>> /\ last'.out_quote_info # <<>>]_vars

\* quote structures built without version info: the extended one without
\* use_ver_info, or the legacy one with it
C14_Witness ==
    /\ QuoteBuilt /\ tpm_version_info = <<>>
    /\ ~last.use_quote2 /\ last.use_ver_info

(* C15 *)

\* the same bytes, whatever buffers they lie in
SameBytes(a, b) ==
    /\ Len(a) = Len(b)
    /\ \A i \in 1..Len(a) : [a[i] EXCEPT !.own = ""] = [b[i] EXCEPT !.own = ""]

\* C15: a successful create_dh_nonce with nonce_len in {16, 20, 32} leaves a nonce
\* of exactly nonce_len bytes in the responder slot of a measurer or the initiator
\* slot of a verifier and leaves the other slot alone; set_peer_public_value writes
\* the peer's nonce to the other slot and leaves the own one alone.
C15_OwnNonceLengthDisjointSlots ==
    [][/\ \A g, rng \in BOOLEAN, n \in {16, 20, 32}, r \in 1..MaxRand :
             (create_dh_nonce(g, rng, n, r, r) /\ last'.ret) =>
                IF is_imc
                THEN ChunkLen(responder_nonce') = n /\ UNCHANGED initiator_nonce
                ELSE ChunkLen(initiator_nonce') = n /\ UNCHANGED responder_nonce
       /\ \A value \in PeerValues, nonce \in PeerNonces :
             set_peer_public_value(value, nonce) =>
                IF is_imc
                THEN SameBytes(initiator_nonce', nonce) /\ UNCHANGED responder_nonce
                ELSE SameBytes(responder_nonce', nonce) /\ UNCHANGED initiator_nonce]_vars

\* a measurer holding its own 32-byte nonce next to the 20-byte nonce of the peer
C15_Witness ==
    /\ is_imc /\ last.op = "set_peer_public_value"
    /\ responder_nonce # <<>> /\ responder_nonce[1].k = "rand"
    /\ ChunkLen(responder_nonce) = 32
    /\ initiator_nonce # <<>> /\ initiator_nonce[1].k = "peer"

(* C16 *)

\* C16: create_dh_nonce returns failure when the random source is unavailable and
\* when the DH group is unsupported, and when it returns success the session holds
\* a DH object and an own-role nonce.
C16_SuccessMeansKeypair ==
    [][\A g, rng \in BOOLEAN, n \in NonceLens, r \in 1..MaxRand :
          create_dh_nonce(g, rng, n, r, r) =>
             /\ (~rng \/ ~g) => ~last'.ret
             /\ last'.ret =>
                   /\ dh'.present
                   /\ (IF is_imc THEN responder_nonce' ELSE initiator_nonce') # <<>>]_vars

(* C17 *)

Supported == {PTS_MEAS_ALGO_SHA1, PTS_MEAS_ALGO_SHA256, PTS_MEAS_ALGO_SHA384}

\* C17: set_meas_algorithm and set_dh_hash_algorithm store a supported algorithm
\* and leave the selector unchanged for an unsupported one, so that both selectors
\* map to a supported digest, never to the unknown one, in every state.
C17_SelectorsStaySupported ==
    [][/\ \A a \in HashAlgoInputs :
             set_meas_algorithm(a) =>
                algorithm' = (IF a \in Supported THEN a ELSE algorithm)
       /\ \A a \in HashAlgoInputs :
             set_dh_hash_algorithm(a) =>
                dh_hash_algorithm' = (IF a \in Supported THEN a ELSE dh_hash_algorithm)
       /\ {algorithm, dh_hash_algorithm, algorithm', dh_hash_algorithm'} \subseteq Supported
       /\ pts_meas_algo_to_hash(algorithm') # HASH_UNKNOWN
       /\ pts_meas_algo_to_hash(dh_hash_algorithm') # HASH_UNKNOWN]_vars

\* SHA-256 is no input of the setters: set_meas_algorithm was called with the
\* unsupported algorithm and left the selector of pts_create in place, after
\* set_dh_hash_algorithm had stored another one
C17_Witness ==
    /\ last.op = "set_meas_algorithm"
    /\ algorithm = PTS_MEAS_ALGO_SHA256
    /\ dh_hash_algorithm = PTS_MEAS_ALGO_SHA384

(* C18 *)

HardwareFlags == {PTS_PROTO_CAPS_T, PTS_PROTO_CAPS_D}

\* C18 as stated: the session pts_create returns has the flag V, and has T or D
\* only if the hardware was probed and found, measurer and verifier alike.
C18_HardwareFlagsOnlyAfterProbe ==
    last.op = "pts_create" =>
        /\ PTS_PROTO_CAPS_V \in proto_caps
        /\ (proto_caps \cap HardwareFlags # {}) => has_tpm

\* C18 amended: the session pts_create returns has V; a measurer has T and D in
\* addition exactly when its TPM probe succeeded; a verifier has T and D from
\* creation on, without any probe of the hardware.
C18_VerifierHasHardwareFlags ==
    last.op = "pts_create" =>
        proto_caps =
           {PTS_PROTO_CAPS_V} \cup (IF is_imc /\ ~has_tpm THEN {} ELSE HardwareFlags)

\* a verifier as pts_create returns it: no TPM probed, T and D set
C18_Witness ==
    /\ last.op = "pts_create" /\ ~is_imc /\ ~has_tpm
    /\ proto_caps = {PTS_PROTO_CAPS_V, PTS_PROTO_CAPS_T, PTS_PROTO_CAPS_D}

(* C19 *)

\* C19: verify_quote_signature returns (it does not fault), returns failure when
\* the session holds no AIK certificate or the certificate yields no public key,
\* returns success only when the signature verifies, and changes no session state.
C19_FailsWithoutCredential ==
    [][\A verified \in BOOLEAN :
          verify_quote_signature(verified) =>
             /\ ~last'.fault
             /\ (~aik.present \/ ~aik.public_key) => ~last'.ret
             /\ last'.ret => verified
             /\ UNCHANGED <<session, dh_hash_algorithm, negotiator, tpm_version_info,
                            registry, pcr_len>>]_vars

(* C20 *)

\* the session's stored nonces and register values
StoredChunks(ini, res, regs) ==
    {ini, res} \cup {regs[i] : i \in 0..(PCR_MAX_NUM - 1)}

\* C20: no buffer is shared between the session and its caller: the stored nonces
\* and register values lie in buffers of the session (copies of the arguments), the
\* nonce handed out by get_my_public_value does not lie in a buffer of the session
\* (it is a copy), and a caller that writes to the buffers it holds changes no
\* stored nonce or register value.
C20_NoSharedBuffers ==
    [][/\ \A c \in StoredChunks(initiator_nonce', responder_nonce', pcrs') :
             c # <<>> => c[1].own = "session"
       /\ (last'.op = "get_my_public_value" /\ last'.out_pcr_comp # <<>>)
             => last'.out_pcr_comp[1].own # "session"
       /\ last'.op = "caller_overwrites"
             => UNCHANGED <<initiator_nonce, responder_nonce, pcrs>>]_vars

(* C21 *)

\* the names a directory measurement has to list: the regular files whose name
\* does not begin with a dot, in enumeration order
MeasuredNames(files) ==
    LET keep(f) == f.reg /\ f.name[1] # "."
        kept == SelectSeq(files, keep)
    IN [i \in 1..Len(kept) |-> kept[i].name]

\* C21: do_measurements on a directory returns one entry per regular file whose
\* name does not begin with '.', and none for subdirectories and dot-files; it
\* returns no result at all when the hasher is unavailable, the directory cannot be
\* opened or one of the measured files cannot be read (opened, or read to its end).
C21_DirectoryMeasurements ==
    [][last'.op = "do_measurements" =>
          \A files \in Directories, hasher_available, directory_opens \in BOOLEAN :
             LET m == last'.measurements
                 unread == \E i \in 1..Len(files) :
                              /\ files[i].reg /\ files[i].name[1] # "."
                              /\ files[i].status # "ok"
             IN
             \/ IF ~hasher_available \/ ~directory_opens \/ unread
                THEN m.null /\ m.entries = <<>>
                ELSE /\ ~m.null
                     /\ [i \in 1..Len(m.entries) |-> m.entries[i].filename]
                           = MeasuredNames(files)
             \/ ~do_measurements(<<"/", "d">>, TRUE, files, hasher_available,
                                 directory_opens)]_vars

(* C22 *)

\* C22: is_path_valid returns (TRUE, 0) for an accessible path, (TRUE,
\* TCG_PTS_FILE_NOT_FOUND) for ENOENT and ENOTDIR, (TRUE, TCG_PTS_INVALID_PATH) for
\* EFAULT and (FALSE, 0) for any other error: four different outcomes.
C22_PathOutcomes ==
    [][last'.op = "is_path_valid" =>
          \A errno \in Errnos :
             \/ <<last'.ret, last'.error_code>> =
                   (CASE errno = "0" -> <<TRUE, "0">>
                      [] errno \in {"ENOENT", "ENOTDIR"} -> <<TRUE, "TCG_PTS_FILE_NOT_FOUND">>
                      [] errno = "EFAULT" -> <<TRUE, "TCG_PTS_INVALID_PATH">>
                      [] OTHER -> <<FALSE, "0">>)
             \/ ~is_path_valid(errno)]_vars

\* the unclassified error: stat failed with an errno outside the three named ones
C22_Witness ==
    last.op = "is_path_valid" /\ ~last.ret /\ last.error_code = PTS_ERROR_NONE

(* C23 *)

\* C23: a successful add_pcr on a populated slot replaces the value, also when the
\* stored value differs from pcr_before, and leaves bitmap, pcr_count and pcr_max
\* unchanged; on an empty slot it stores the value, sets the bit, raises pcr_count
\* by one and leaves pcr_max at or above the index.
C23_ReplaceOrAdd ==
    [][last'.op = "add_pcr" /\ last'.ret =>
          \A pcr \in PcrInputs : \A pcr_after \in PcrValues(pcr) :
             \/ /\ pcr < PCR_MAX_NUM
                /\ memeq(pcrs'[pcr], pcr_after)
                /\ \A i \in 0..(PCR_MAX_NUM - 1) : i # pcr => pcrs'[i] = pcrs[i]
                /\ IF pcrs[pcr] # <<>>
                   THEN UNCHANGED <<pcr_select, pcr_count, pcr_max>>
                   ELSE /\ pcr_selected(pcr)'
                        /\ pcr_count' = pcr_count + 1
                        /\ pcr_max' >= pcr /\ pcr_max' >= pcr_max
             \/ ~add_pcr(pcr, PcrValue(pcr, 1, PCR_LEN), pcr_after)]_vars

\* a value was replaced although the stored one was not the pcr_before given
C23_Witness ==
    /\ last.op = "add_pcr" /\ last.ret /\ last.replaced
    /\ pcr_count = 1 /\ pcrs[IdxSeq[1]] # <<>>

(* C24 *)

\* how often a call occurs in a trace, and whether it succeeded
Times(tss, call) == Cardinality({k \in 1..Len(tss) : tss[k].call = call})
Succeeded(tss, call) == \E k \in 1..Len(tss) : tss[k].call = call /\ tss[k].ok

\* C24 as stated: quote_tpm clears the registry only after Tspi_TPM_Quote was
\* issued; when it returns before that (context creation, connect, key loading or
\* composite setup failed) the registry is unchanged.
C24_ClearedOnlyAfterQuote ==
    [][last'.op = "quote_tpm" =>
          IF Times(last'.tss, "Tspi_TPM_Quote") > 0
          THEN RegistryEmpty'
          ELSE UNCHANGED registry]_vars

\* C24 amended: quote_tpm clears the registry on every return path behind a
\* successful Tspi_Context_Create, whether or not the quote was issued; only when
\* the context cannot be created is the registry unchanged.
C24_ClearedOnceContextCreated ==
    [][last'.op = "quote_tpm" =>
          IF Succeeded(last'.tss, "Tspi_Context_Create")
          THEN RegistryEmpty' /\ last'.cleared
          ELSE UNCHANGED registry /\ ~last'.cleared]_vars

\* a recorded register was dropped by a quote_tpm that never issued the quote
C24_Witness ==
    /\ last.op = "quote_tpm" /\ ~last.ret /\ last.freed # {} /\ RegistryEmpty
    /\ Times(last.tss, "Tspi_TPM_Quote") = 0

(* C25 *)

TssOps == {"pts_create", "read_pcr", "extend_pcr", "quote_tpm"}

\* C25: read_pcr, extend_pcr, quote_tpm and has_tpm (run by pts_create) close the
\* hardware context exactly once, as their last TSS call, on every return path
\* behind its creation, and never when it was not created; quote_tpm closes the AIK
\* key and the PCR composite at most once and only when it opened them.
C25_ContextClosedOnce ==
    (last.op \in TssOps /\ ~last.fault) =>
        LET tss == last.tss
            closes(call) == Times(tss, call)
        IN /\ closes("Tspi_Context_Close") =
                 (IF Succeeded(tss, "Tspi_Context_Create") THEN 1 ELSE 0)
           /\ closes("Tspi_Context_Close") = 1 => tss[Len(tss)].call = "Tspi_Context_Close"
           /\ closes("Tspi_Context_CloseObject(hAIK)") <= 1
           /\ closes("Tspi_Context_CloseObject(hAIK)") = 1
                 => Succeeded(tss, "Tspi_Context_LoadKeyByBlob")
           /\ closes("Tspi_Context_CloseObject(hPcrComposite)") <= 1
           /\ closes("Tspi_Context_CloseObject(hPcrComposite)") = 1
                 => Succeeded(tss, "Tspi_Context_CreateObject")

\* quote_tpm failed to create the composite: the key is closed, the composite not
C25_Witness ==
    /\ last.op = "quote_tpm" /\ ~last.ret
    /\ Succeeded(last.tss, "Tspi_Context_LoadKeyByBlob")
    /\ Times(last.tss, "Tspi_Context_CreateObject") = 1
    /\ ~Succeeded(last.tss, "Tspi_Context_CreateObject")
    /\ Times(last.tss, "Tspi_Context_CloseObject(hAIK)") = 1
    /\ Times(last.tss, "Tspi_Context_Close") = 1

(* C29 *)

\* C29: on every path of extend_pcr the buffer pcr_value is cleared only if it was
\* allocated earlier on that path; the failures before the allocation (connect,
\* TPM-object lookup) do not touch it.
C29_ClearedOnlyIfAllocated ==
    last.op = "extend_pcr" =>
        (Times(last.tss, "chunk_clear(pcr_value)") > 0
            => Times(last.tss, "chunk_alloc(pcr_value)") > 0)

(* C26 *)

\* C26: the Quote Info of a successful get_quote_info embeds a secret derived after
\* the last create_dh_nonce: once create_dh_nonce has started a new exchange no
\* secret is present, so a get_quote_info that follows it directly fails.
C26_QuoteNeedsSecretOfThisExchange ==
    [][(last.op = "create_dh_nonce" /\ last.ret /\ last'.op = "get_quote_info")
          => ~last'.ret]_vars

(* C27 *)

\* the two objects have opposite roles, hold each other's public value and the
\* same pair of nonces, and use the same DH hash algorithm
C27_Exchanged ==
    /\ is_imc # other.is_imc
    /\ dh.present /\ other.dh.present
    /\ dh.peer = other.dh.key /\ other.dh.peer = dh.key
    /\ memeq(initiator_nonce, other.initiator_nonce)
    /\ memeq(responder_nonce, other.responder_nonce)
    /\ dh_hash_algorithm = other.dh_hash_algorithm
    /\ memeq(shared_secret_of(dh), shared_secret_of(other.dh))

\* C27: a measurer and a verifier that each ran create_dh_nonce, passed each other
\* their public value and nonce, use the same DH hash algorithm and get the same
\* DH shared secret hold equal assessment secrets once calculate_secret has
\* succeeded on both.
C27_PairedSessionsAgree ==
    (C27_Exchanged /\ secret # <<>> /\ other.secret # <<>>)
        => memeq(secret, other.secret)

\* both sides derived the secret from nonces of different lengths
C27_Witness ==
    /\ C27_Exchanged /\ secret # <<>> /\ memeq(secret, other.secret)
    /\ ChunkLen(initiator_nonce) # ChunkLen(responder_nonce)

(* C28 *)

\* no slot above pcr_max is populated and no bit above pcr_max is set
C28_Bounded ==
    \A i \in 0..(PCR_MAX_NUM - 1) :
        (pcrs[i] # <<>> \/ BitOf(pcr_select, i)) => i <= pcr_max

\* C28: every populated slot and every set bit of the bitmap has an index of at
\* most pcr_max; so clear_pcrs, which visits the slots 0..pcr_max, leaves all 24
\* slots empty, the bitmap zero, pcr_count = 0 and pcr_max = 0.
C28_MaxBoundsRegistry ==
    /\ C28_Bounded
    /\ last.cleared => RegistryEmpty

\* clear_pcrs has freed the highest register of the table together with a lower one
C28_Witness ==
    /\ last.cleared /\ RegistryEmpty
    /\ PCR_MAX_NUM - 1 \in last.freed /\ Cardinality(last.freed) >= 2

====
